---- MODULE Spec2Model ----
(***************************************************************************)
(* A model of anacore/sequenceIO.py: the Sequence record with its reverse  *)
(* complement transforms, and the FastqIO / FastaIO codecs (nextSeq,       *)
(* write, isValid, qualOffset, nbSeq) over one file of a file system.      *)
(*                                                                         *)
(* A Python str is the sequence of its character codes, so that strip(),   *)
(* split(), startswith(), ord() and the line structure of a file are       *)
(* computed as Python computes them.  An optional value (None or a str) is *)
(* the record [some |-> BOOLEAN, val |-> str].                             *)
(***************************************************************************)
EXTENDS Integers, Sequences, FiniteSets, TLC

VARIABLES
    fs,               \* the file at `filepath`: [exists, content]
    cls,              \* class of the codec instance: "none", "FastqIO", "FastaIO"
    mode,             \* self.mode: "r", "w" or "a"
    file_handle,      \* self.file_handle: [open, pos, buf]; open = FALSE is None
    current_line_nb,  \* self.current_line_nb; 0 stands for None
    next_id,          \* FastaIO._next_id (optional str)
    end_of_file,      \* FastaIO._end_of_file
    rec,              \* the Sequence record the caller holds
    ret,              \* what the last call returned or raised
    written,          \* what filled the file, in order: the class of the codec
                      \* whose write() added a record, or what the environment added
    nread,            \* the nextSeq calls made on the codec: 0, 1, or 2 for more
    chain,            \* the records got by successive reverse complements of rec
    FH_in             \* the reader local to the last isValid or qualOffset call, as
                      \* the call left it: [cls, file_handle, current_line_nb]

vars == <<fs, cls, mode, file_handle, current_line_nb, next_id, end_of_file,
          rec, ret, written, nread, chain, FH_in>>

codec == <<cls, mode, file_handle, current_line_nb, next_id, end_of_file>>

(***************************************************************************)
(* Character codes.                                                        *)
(***************************************************************************)
NL == 10
CR == 13
SP == 32
PLUS == 43
GT == 62
AT == 64
chN == 78

\* The characters str.strip() and str.split(None) treat as whitespace
\* (str.isspace()).
Whitespace ==
    (9..13) \cup (28..32) \cup {133, 160, 5760} \cup (8192..8202)
        \cup {8232, 8233, 8239, 8287, 12288}

\* [A-Za-z] of the regular expression in FastqIO.isValid.
Letters == (65..90) \cup (97..122)

(***************************************************************************)
(* Python values.                                                          *)
(***************************************************************************)
None == [some |-> FALSE, val |-> <<>>]
Some(s) == [some |-> TRUE, val |-> s]

SetMin(S) == CHOOSE x \in S : \A y \in S : x <= y
SetMax(S) == CHOOSE x \in S : \A y \in S : x >= y

\* s[::-1]
Reverse(s) == [i \in 1..Len(s) |-> s[Len(s) + 1 - i]]

\* s[1:]
Tail1(s) == IF s = <<>> THEN <<>> ELSE SubSeq(s, 2, Len(s))

\* s.lstrip()
LStrip(s) ==
    LET keep == {i \in 1..Len(s) : s[i] \notin Whitespace}
    IN  IF keep = {} THEN <<>> ELSE SubSeq(s, SetMin(keep), Len(s))

\* s.strip()
Strip(s) ==
    LET keep == {i \in 1..Len(s) : s[i] \notin Whitespace}
    IN  IF keep = {} THEN <<>> ELSE SubSeq(s, SetMin(keep), SetMax(keep))

\* s.split(None, 1): at most two fields; the first whitespace run separates
\* them, leading whitespace is dropped, the second field keeps its tail.
Split1(s) ==
    LET t == LStrip(s)
        ws == {i \in 1..Len(t) : t[i] \in Whitespace}
    IN  IF t = <<>> THEN <<>>
        ELSE IF ws = {} THEN <<t>>
        ELSE LET first == SubSeq(t, 1, SetMin(ws) - 1)
                 rest == LStrip(SubSeq(t, SetMin(ws), Len(t)))
             IN  IF rest = <<>> THEN <<first>> ELSE <<first, rest>>

\* s.startswith(c) for a one-character prefix c
StartsWith(s, c) == Len(s) >= 1 /\ s[1] = c

(***************************************************************************)
(* The text stream of a file opened in text mode.                          *)
(***************************************************************************)
\* Reading in text mode translates "\r\n" and a lone "\r" into "\n"
\* (universal newlines of open() and gzip.open(.., "rt")).  When the last byte
\* is a lone "\r" the newline decoder keeps it pending until a read meets the
\* end of the stream: the decoded text then ends with "\n" followed by CR,
\* which stands for that pending state and is never part of a line.
RECURSIVE Decode(_)
Decode(bytes) ==
    LET crs == {i \in 1..Len(bytes) : bytes[i] = CR}
        cr == SetMin(crs)
        after == IF cr < Len(bytes) /\ bytes[cr + 1] = NL THEN cr + 2 ELSE cr + 1
    IN  IF crs = {} THEN bytes
        ELSE IF cr = Len(bytes) THEN SubSeq(bytes, 1, cr - 1) \o <<NL, CR>>
        ELSE SubSeq(bytes, 1, cr - 1) \o <<NL>> \o Decode(SubSeq(bytes, after, Len(bytes)))

\* file_handle.readline() at position pos of text: the line with its "\n", or
\* "" at the end of the stream.  pos stands for file_handle.tell(): the read
\* that flushes a pending "\r" returns "" and yet changes what tell() returns.
ReadLine(text, pos) ==
    LET nls == {i \in (pos + 1)..Len(text) : text[i] = NL}
        end == IF nls = {} THEN Len(text) ELSE SetMin(nls)
    IN  IF pos >= Len(text) THEN [line |-> <<>>, pos |-> pos]
        ELSE IF text[pos + 1] = CR THEN [line |-> <<>>, pos |-> pos + 1]
        ELSE [line |-> SubSeq(text, pos + 1, end), pos |-> end]

\* A byte that is not valid in the encoding of the stream (UTF-8), such as
\* 0xFF, is given the first value beyond the code points.
BadByte == 1114112

\* The decoder raises UnicodeDecodeError on the first read of such a stream,
\* the whole of a file shorter than the read buffer being decoded at once.
\* The stream is afterwards at its end.
Garbled(text) == \E i \in 1..Len(text) : text[i] = BadByte

\* The lines of text, as `for line in FH_in` yields them.
RECURSIVE LinesFrom(_, _)
LinesFrom(text, pos) ==
    IF ReadLine(text, pos).line = <<>> THEN <<>>
    ELSE <<ReadLine(text, pos).line>> \o LinesFrom(text, ReadLine(text, pos).pos)

Lines(text) == LinesFrom(text, 0)

(***************************************************************************)
(* class Sequence                                                          *)
(***************************************************************************)
Sequence(id, string, description, quality) ==
    [id |-> id, string |-> string, description |-> description, quality |-> quality]

\* A slip in the table: "R" is given itself as complement.
dna_complement_RtoR ==
    (65 :> 84) @@ (84 :> 65) @@ (71 :> 67) @@ (67 :> 71) @@ (85 :> 65) @@ (78 :> 78) @@
    (97 :> 116) @@ (116 :> 97) @@ (103 :> 99) @@ (99 :> 103) @@ (117 :> 97) @@ (110 :> 110) @@
    (87 :> 87) @@ (83 :> 83) @@ (77 :> 75) @@ (75 :> 77) @@ (82 :> 82) @@ (89 :> 82) @@
    (66 :> 86) @@ (86 :> 66) @@ (68 :> 72) @@ (72 :> 68) @@
    (119 :> 119) @@ (115 :> 115) @@ (109 :> 107) @@ (107 :> 109) @@ (114 :> 121) @@ (121 :> 114) @@
    (98 :> 118) @@ (118 :> 98) @@ (100 :> 104) @@ (104 :> 100)

\* Sequence.dna_complement, as a function of character codes.
dna_complement ==
    \*  A           T           G           C           U           N
    (65 :> 84) @@ (84 :> 65) @@ (71 :> 67) @@ (67 :> 71) @@ (85 :> 65) @@ (78 :> 78) @@
    \*  a            t             g             c            u             n
    (97 :> 116) @@ (116 :> 97) @@ (103 :> 99) @@ (99 :> 103) @@ (117 :> 97) @@ (110 :> 110) @@
    \*  W           S           M           K           R           Y
    (87 :> 87) @@ (83 :> 83) @@ (77 :> 75) @@ (75 :> 77) @@ (82 :> 89) @@ (89 :> 82) @@
    \*  B           V           D           H
    (66 :> 86) @@ (86 :> 66) @@ (68 :> 72) @@ (72 :> 68) @@
    \*  w             s             m             k             r             y
    (119 :> 119) @@ (115 :> 115) @@ (109 :> 107) @@ (107 :> 109) @@ (114 :> 121) @@ (121 :> 114) @@
    \*  b            v            d             h
    (98 :> 118) @@ (118 :> 98) @@ (100 :> 104) @@ (104 :> 100)

\* Sequence.rna_complement: as the DNA table, but A -> U and a -> u.
rna_complement ==
    (65 :> 85) @@ (84 :> 65) @@ (71 :> 67) @@ (67 :> 71) @@ (85 :> 65) @@ (78 :> 78) @@
    (97 :> 117) @@ (116 :> 97) @@ (103 :> 99) @@ (99 :> 103) @@ (117 :> 97) @@ (110 :> 110) @@
    (87 :> 87) @@ (83 :> 83) @@ (77 :> 75) @@ (75 :> 77) @@ (82 :> 89) @@ (89 :> 82) @@
    (66 :> 86) @@ (86 :> 66) @@ (68 :> 72) @@ (72 :> 68) @@
    (119 :> 119) @@ (115 :> 115) @@ (109 :> 107) @@ (107 :> 109) @@ (114 :> 121) @@ (121 :> 114) @@
    (98 :> 118) @@ (118 :> 98) @@ (100 :> 104) @@ (104 :> 100)

\* A slip in the reverse complement: the quality is copied as it is.
RevCom_QualityKept(table, s) ==
    IF \E i \in 1..Len(s.string) : s.string[i] \notin DOMAIN table
    THEN [tag |-> "KeyError"]
    ELSE [tag |-> "record",
          val |-> Sequence(
              s.id,
              [i \in 1..Len(s.string) |-> table[Reverse(s.string)[i]]],
              s.description,
              s.quality)]

\* The reverse complement of record s under a complement table: a new record,
\* or KeyError when a residue is no key of the table.
RevCom(table, s) ==
    IF \E i \in 1..Len(s.string) : s.string[i] \notin DOMAIN table
    THEN [tag |-> "KeyError"]
    ELSE [tag |-> "record",
          val |-> Sequence(
              s.id,
              [i \in 1..Len(s.string) |-> table[Reverse(s.string)[i]]],
              s.description,
              IF s.quality.some THEN Some(Reverse(s.quality.val)) ELSE None)]

dnaRevCom(s) == RevCom(dna_complement, s)

rnaRevCom(s) == RevCom(rna_complement, s)

(***************************************************************************)
(* What a call returns or raises.                                          *)
(***************************************************************************)
NoCall == [op |-> "none", out |-> [tag |-> "none"]]

\* IOError('The line {} in "{}" cannot be parsed by {}.'): the message carries
\* self.current_line_nb, self.filepath (the one file of the model) and the
\* class name.
ParseError(line_nb, class) ==
    [tag |-> "IOError", line |-> line_nb, path |-> "filepath", by |-> class]

(***************************************************************************)
(* class FastqIO                                                           *)
(***************************************************************************)
\* A slip in nextSeq: the separator line is not read, and is taken as the
\* quality.
FastqNextSeq_NoSeparator(text, pos, line_nb) ==
    LET h == ReadLine(text, pos)
        header == Strip(h.line)
        fields == Split1(Tail1(header))
        s == ReadLine(text, h.pos)
        q == ReadLine(text, s.pos)
    IN  IF h.pos = pos
        THEN [ret |-> [tag |-> "None"], pos |-> pos, line_nb |-> line_nb]
        ELSE IF fields = <<>>
        THEN [ret |-> ParseError(line_nb, "FastqIO"), pos |-> h.pos, line_nb |-> line_nb]
        ELSE [ret |-> [tag |-> "record",
                       val |-> Sequence(fields[1], Strip(s.line),
                                        IF Len(fields) = 2 THEN Some(fields[2]) ELSE None,
                                        Some(Strip(q.line)))],
              pos |-> q.pos, line_nb |-> line_nb + 3]

\* FastqIO.nextSeq on an open reader at position pos of text: the value
\* returned or the error raised, and the reader's new position and line
\* number.  A readline() at the end of the stream returns "" and raises
\* nothing.
FastqNextSeq(text, pos, line_nb) ==
    LET h == ReadLine(text, pos)
        header == Strip(h.line)
        fields == Split1(Tail1(header))
        s == ReadLine(text, h.pos)
        p == ReadLine(text, s.pos)
        q == ReadLine(text, p.pos)
    IN  IF Garbled(text) /\ pos < Len(text)   \* readline(): UnicodeDecodeError
        THEN [ret |-> ParseError(line_nb, "FastqIO"), pos |-> Len(text), line_nb |-> line_nb]
        ELSE IF h.pos = pos
        THEN [ret |-> [tag |-> "None"], pos |-> pos, line_nb |-> line_nb]
        ELSE IF fields = <<>>   \* fields[0]: IndexError
        THEN [ret |-> ParseError(line_nb, "FastqIO"), pos |-> h.pos, line_nb |-> line_nb]
        ELSE [ret |-> [tag |-> "record",
                       val |-> Sequence(fields[1], Strip(s.line),
                                        IF Len(fields) = 2 THEN Some(fields[2]) ELSE None,
                                        Some(Strip(q.line)))],
              pos |-> q.pos, line_nb |-> line_nb + 4]

\* FastqIO.seqToFastqLine: str + None raises TypeError.
seqToFastqLine(sequence) ==
    IF ~sequence.quality.some THEN [tag |-> "TypeError"]
    ELSE [tag |-> "str",
          val |-> <<AT>> \o sequence.id
                  \o (IF sequence.description.some
                      THEN <<SP>> \o sequence.description.val ELSE <<>>)
                  \o <<NL>> \o sequence.string
                  \o <<NL, PLUS>>
                  \o <<NL>> \o sequence.quality.val]

\* The codes below LowCode occur only under offset 33; above HighCode the 30th
\* percentile tells offset 64.
LowCode == 59
HighCode == 84

\* The keys of count_by_qual.
QualKeys == (0 - 5)..126

\* A slip in the loop: the bases "N" are skipped before their code is compared
\* with LowCode.
RECURSIVE QualScanRecord_SkipNFirst(_, _, _, _, _)
QualScanRecord_SkipNFirst(string, quality, i, nb_qual, count_by_qual) ==
    IF i > Len(string) \/ i > Len(quality)
    THEN [tag |-> "scanned", nb_qual |-> nb_qual, count_by_qual |-> count_by_qual]
    ELSE IF string[i] = chN
    THEN QualScanRecord_SkipNFirst(string, quality, i + 1, nb_qual, count_by_qual)
    ELSE IF quality[i] < LowCode
    THEN [tag |-> "offset33", nb_qual |-> nb_qual, count_by_qual |-> count_by_qual]
    ELSE IF quality[i] \notin QualKeys
    THEN [tag |-> "KeyError", nb_qual |-> nb_qual + 1, count_by_qual |-> count_by_qual]
    ELSE QualScanRecord_SkipNFirst(string, quality, i + 1, nb_qual + 1,
                                   [count_by_qual EXCEPT ![quality[i]] = @ + 1])

\* The for loop of FastqIO.qualOffset over zip(record.string, record.quality),
\* from index i: a code below LowCode sets offset 33 and breaks; the code of a
\* base other than "N" is counted, and a code that is no key of count_by_qual
\* raises KeyError.
RECURSIVE QualScanRecord(_, _, _, _, _)
QualScanRecord(string, quality, i, nb_qual, count_by_qual) ==
    IF i > Len(string) \/ i > Len(quality)
    THEN [tag |-> "scanned", nb_qual |-> nb_qual, count_by_qual |-> count_by_qual]
    ELSE IF quality[i] < LowCode
    THEN [tag |-> "offset33", nb_qual |-> nb_qual, count_by_qual |-> count_by_qual]
    ELSE IF string[i] = chN
    THEN QualScanRecord(string, quality, i + 1, nb_qual, count_by_qual)
    ELSE IF quality[i] \notin QualKeys
    THEN [tag |-> "KeyError", nb_qual |-> nb_qual + 1, count_by_qual |-> count_by_qual]
    ELSE QualScanRecord(string, quality, i + 1, nb_qual + 1,
                        [count_by_qual EXCEPT ![quality[i]] = @ + 1])

\* The while loop of FastqIO.qualOffset, entered with the record that the
\* nextSeq call r returned: the loop ends at the end of the stream or once the
\* offset is set, after one more nextSeq; a nextSeq that raises ends the call.
RECURSIVE QualScan(_, _, _, _)
QualScan(text, r, nb_qual, count_by_qual) ==
    IF r.ret.tag = "IOError" THEN [tag |-> "IOError", ret |-> r.ret]
    ELSE IF r.ret.tag = "None"
    THEN [tag |-> "end", offset |-> None, nb_qual |-> nb_qual,
          count_by_qual |-> count_by_qual]
    ELSE LET sc == QualScanRecord(r.ret.val.string, r.ret.val.quality.val, 1,
                                  nb_qual, count_by_qual)
             nxt == FastqNextSeq(text, r.pos, r.line_nb)
         IN  IF sc.tag = "KeyError" THEN [tag |-> "KeyError"]
             ELSE IF nxt.ret.tag = "IOError" THEN [tag |-> "IOError", ret |-> nxt.ret]
             ELSE IF sc.tag = "offset33"
             THEN [tag |-> "end", offset |-> Some(33), nb_qual |-> sc.nb_qual,
                   count_by_qual |-> sc.count_by_qual]
             ELSE QualScan(text, nxt, sc.nb_qual, sc.count_by_qual)

\* The values of nb_qual below FloatRange at which the floating point product
\* (nb_qual / 100) * 30 falls just under the integer nb_qual * 30 / 100, so
\* that int() gives one less: (410 / 100) * 30 is 122.99999999999999.
FloatRange == 1640
RoundedDown == {410, 820}

\* int((nb_qual / 100) * 30), for nb_qual below FloatRange.
CheckedIdx(nb_qual) ==
    IF nb_qual \in RoundedDown THEN (nb_qual * 30) \div 100 - 1
    ELSE (nb_qual * 30) \div 100

\* The walk over sorted(count_by_qual.items()) from key curr_ascii with the
\* sum of the counts of the keys before it: the first key at which the sum
\* reaches checked_idx.
RECURSIVE PercentileKey(_, _, _, _)
PercentileKey(count_by_qual, checked_idx, curr_ascii, curr_count_sum) ==
    IF curr_count_sum + count_by_qual[curr_ascii] >= checked_idx
    THEN curr_ascii
    ELSE PercentileKey(count_by_qual, checked_idx, curr_ascii + 1,
                       curr_count_sum + count_by_qual[curr_ascii])

\* FastqIO.qualOffset(filepath) on the text of an existing file: the offset
\* returned, or the error raised.
qualOffset(text) ==
    LET sc == QualScan(text, FastqNextSeq(text, 0, 1), 0, [k \in QualKeys |-> 0])
        key == PercentileKey(sc.count_by_qual, CheckedIdx(sc.nb_qual), 0 - 5, 0)
    IN  IF sc.tag = "IOError" THEN sc.ret
        ELSE IF sc.tag = "KeyError" THEN [tag |-> "KeyError"]
        ELSE IF sc.offset.some THEN [tag |-> "int", val |-> sc.offset.val]
        ELSE IF key > HighCode THEN [tag |-> "int", val |-> 64]
        ELSE [tag |-> "int", val |-> 33]

\* The number of records FastqIO.isValid examines.
FastqMaxRecords == 10

\* A slip in the loop: the lengths of the sequence and of the quality are not
\* compared.
RECURSIVE FastqIsValidLoop_NoLengthCheck(_, _, _)
FastqIsValidLoop_NoLengthCheck(text, pos, seq_idx) ==
    LET header == ReadLine(text, pos)
        unstriped_sequence == ReadLine(text, header.pos)
        unstriped_separator == ReadLine(text, unstriped_sequence.pos)
        unstriped_quality == ReadLine(text, unstriped_separator.pos)
        sequence == Strip(unstriped_sequence.line)
    IN  IF seq_idx >= FastqMaxRecords THEN TRUE
        ELSE IF header.line = <<>> THEN TRUE
        ELSE IF ~StartsWith(header.line, AT) THEN FALSE
        ELSE IF unstriped_sequence.line = <<>> THEN FALSE
        ELSE IF \E i \in 1..Len(sequence) : sequence[i] \notin Letters THEN FALSE
        ELSE IF unstriped_separator.line = <<>> THEN FALSE
        ELSE FastqIsValidLoop_NoLengthCheck(text, unstriped_quality.pos, seq_idx + 1)

\* The while loop of FastqIO.isValid from position pos with seq_idx records
\* examined: TRUE when the loop ends without raising.
RECURSIVE FastqIsValidLoop(_, _, _)
FastqIsValidLoop(text, pos, seq_idx) ==
    LET header == ReadLine(text, pos)
        unstriped_sequence == ReadLine(text, header.pos)
        unstriped_separator == ReadLine(text, unstriped_sequence.pos)
        unstriped_quality == ReadLine(text, unstriped_separator.pos)
        sequence == Strip(unstriped_sequence.line)
    IN  IF seq_idx >= FastqMaxRecords THEN TRUE
        ELSE IF header.line = <<>> THEN TRUE
        ELSE IF ~StartsWith(header.line, AT) THEN FALSE
        ELSE IF unstriped_sequence.line = <<>> THEN FALSE
        ELSE IF \E i \in 1..Len(sequence) : sequence[i] \notin Letters THEN FALSE
        ELSE IF unstriped_separator.line = <<>> THEN FALSE
        ELSE IF Len(sequence) # Len(Strip(unstriped_quality.line)) THEN FALSE
        ELSE FastqIsValidLoop(text, unstriped_quality.pos, seq_idx + 1)

\* FastqIO.isValid(filepath) on the text of an existing file; an error of the
\* decoder is raised inside the try block.
FastqIsValid(text) == ~Garbled(text) /\ FastqIsValidLoop(text, 0, 0)

(***************************************************************************)
(* class FastaIO                                                           *)
(***************************************************************************)
\* A slip in the loop: the lines are concatenated with their line breaks.
RECURSIVE FastaBody_NoStrip(_, _, _, _)
FastaBody_NoStrip(text, pos, line_nb, seq_str) ==
    LET r == ReadLine(text, pos)
    IN  IF r.line = <<>>
        THEN [seq_str |-> seq_str, line |-> None, end_of_file |-> TRUE,
              pos |-> r.pos, line_nb |-> line_nb]
        ELSE IF StartsWith(r.line, GT)
        THEN [seq_str |-> seq_str, line |-> Some(r.line), end_of_file |-> FALSE,
              pos |-> r.pos, line_nb |-> line_nb + 1]
        ELSE FastaBody_NoStrip(text, r.pos, line_nb + 1, seq_str \o r.line)

\* The while loop of FastaIO.nextSeq: reads lines from pos until one starts
\* with ">" (the next header) or the stream ends, concatenating the stripped
\* lines before it.
RECURSIVE FastaBody(_, _, _, _)
FastaBody(text, pos, line_nb, seq_str) ==
    LET r == ReadLine(text, pos)
    IN  IF r.line = <<>>
        THEN [seq_str |-> seq_str, line |-> None, end_of_file |-> TRUE,
              pos |-> r.pos, line_nb |-> line_nb]
        ELSE IF StartsWith(r.line, GT)
        THEN [seq_str |-> seq_str, line |-> Some(r.line), end_of_file |-> FALSE,
              pos |-> r.pos, line_nb |-> line_nb + 1]
        ELSE FastaBody(text, r.pos, line_nb + 1, seq_str \o Strip(r.line))

\* A slip in FastaIO.nextSeq: the description is not stripped.
FastaNextSeq_DescriptionKept(text, pos, line_nb, nid, eof) ==
    LET first == ReadLine(text, pos)
        pos0 == IF line_nb = 1 THEN first.pos ELSE pos
        nid0 == IF line_nb = 1 THEN Some(Strip(first.line)) ELSE nid
        ln0 == IF line_nb = 1 THEN line_nb + 1 ELSE line_nb
        b == FastaBody(text, pos0, ln0, <<>>)
        fields == IF nid0.some THEN Split1(Tail1(nid0.val)) ELSE <<>>
    IN  IF eof
        THEN [ret |-> [tag |-> "None"], pos |-> pos, line_nb |-> line_nb,
              next_id |-> nid, end_of_file |-> eof]
        ELSE IF Garbled(text) /\ pos < Len(text)
        THEN [ret |-> ParseError(line_nb, "FastaIO"), pos |-> Len(text),
              line_nb |-> line_nb, next_id |-> nid, end_of_file |-> eof]
        ELSE IF fields = <<>>
        THEN [ret |-> ParseError(b.line_nb, "FastaIO"), pos |-> b.pos,
              line_nb |-> b.line_nb, next_id |-> nid0, end_of_file |-> b.end_of_file]
        ELSE [ret |-> [tag |-> "record",
                       val |-> Sequence(fields[1], b.seq_str,
                                        IF Len(fields) = 2 THEN Some(fields[2]) ELSE None,
                                        None)],
              pos |-> b.pos, line_nb |-> b.line_nb, next_id |-> b.line,
              end_of_file |-> b.end_of_file]

\* FastaIO.nextSeq on an open reader: the value returned or the error raised,
\* and the new position, line number, _next_id and _end_of_file.
FastaNextSeq(text, pos, line_nb, nid, eof) ==
    LET first == ReadLine(text, pos)
        pos0 == IF line_nb = 1 THEN first.pos ELSE pos
        nid0 == IF line_nb = 1 THEN Some(Strip(first.line)) ELSE nid
        ln0 == IF line_nb = 1 THEN line_nb + 1 ELSE line_nb
        b == FastaBody(text, pos0, ln0, <<>>)
        fields == IF nid0.some THEN Split1(Tail1(nid0.val)) ELSE <<>>
    IN  IF eof
        THEN [ret |-> [tag |-> "None"], pos |-> pos, line_nb |-> line_nb,
              next_id |-> nid, end_of_file |-> eof]
        ELSE IF Garbled(text) /\ pos < Len(text)   \* readline(): UnicodeDecodeError
        THEN [ret |-> ParseError(line_nb, "FastaIO"), pos |-> Len(text),
              line_nb |-> line_nb, next_id |-> nid, end_of_file |-> eof]
        ELSE IF fields = <<>>   \* None[1:]: TypeError; fields[0]: IndexError
        THEN [ret |-> ParseError(b.line_nb, "FastaIO"), pos |-> b.pos,
              line_nb |-> b.line_nb, next_id |-> nid0, end_of_file |-> b.end_of_file]
        ELSE [ret |-> [tag |-> "record",
                       val |-> Sequence(fields[1], b.seq_str,
                                        IF Len(fields) = 2 THEN Some(Strip(fields[2])) ELSE None,
                                        None)],
              pos |-> b.pos, line_nb |-> b.line_nb, next_id |-> b.line,
              end_of_file |-> b.end_of_file]

\* FastaIO.seqToFastaLine
seqToFastaLine(sequence) ==
    [tag |-> "str",
     val |-> <<GT>> \o sequence.id
             \o (IF sequence.description.some
                 THEN <<SP>> \o sequence.description.val ELSE <<>>)
             \o <<NL>> \o sequence.string]

\* The number of headers FastaIO.isValid examines.
FastaMaxRecords == 10

\* A slip in the loop: a header that follows a header is not rejected.
RECURSIVE FastaIsValidLoop_NoAdjacency(_, _, _, _)
FastaIsValidLoop_NoAdjacency(text, pos, seq_idx, prev_is_header) ==
    LET curr_line == ReadLine(text, pos)
    IN  IF seq_idx >= FastaMaxRecords THEN TRUE
        ELSE IF curr_line.line = <<>> THEN TRUE
        ELSE IF StartsWith(curr_line.line, GT)
        THEN FastaIsValidLoop_NoAdjacency(text, curr_line.pos, seq_idx + 1, TRUE)
        ELSE IF seq_idx = 0 THEN FALSE
             ELSE FastaIsValidLoop_NoAdjacency(text, curr_line.pos, seq_idx, FALSE)

\* The while loop of FastaIO.isValid from position pos with seq_idx headers
\* seen: TRUE when the loop ends without raising.
RECURSIVE FastaIsValidLoop(_, _, _, _)
FastaIsValidLoop(text, pos, seq_idx, prev_is_header) ==
    LET curr_line == ReadLine(text, pos)
    IN  IF seq_idx >= FastaMaxRecords THEN TRUE
        ELSE IF curr_line.line = <<>> THEN TRUE
        ELSE IF StartsWith(curr_line.line, GT)
        THEN IF prev_is_header THEN FALSE
             ELSE FastaIsValidLoop(text, curr_line.pos, seq_idx + 1, TRUE)
        ELSE IF seq_idx = 0 THEN FALSE
             ELSE FastaIsValidLoop(text, curr_line.pos, seq_idx, FALSE)

\* FastaIO.isValid(filepath) on the text of an existing file; an error of the
\* decoder is raised inside the try block.
FastaIsValid(text) == ~Garbled(text) /\ FastaIsValidLoop(text, 0, 0, FALSE)

(***************************************************************************)
(* The codec instance: construction, write, nextSeq, close.                *)
(***************************************************************************)
MaxWrites == 1

\* file_handle = None; a current_line_nb of 0 likewise stands for None.
Closed == [open |-> FALSE, pos |-> 0, buf |-> <<>>]

\* The exceptions a call raises.
Raised(out) ==
    out.tag \in {"IOError", "FileNotFoundError", "AttributeError", "TypeError",
                 "UnsupportedOperation", "KeyError"}

\* The file once the text stream has written its buffer to it: at close(),
\* and at a tell().
Flushed == [fs EXCEPT !.content = @ \o file_handle.buf]

\* No isValid or qualOffset call has built a reader: FH_in is unbound.
NoReader == [cls |-> "none", file_handle |-> Closed, current_line_nb |-> 0]

\* FH_in = FastqIO(filepath) or FastaIO(filepath), on an existing file.
BuiltReader(c) ==
    [cls |-> c, file_handle |-> [open |-> TRUE, pos |-> 0, buf |-> <<>>],
     current_line_nb |-> 1]

\* close() on the reader r: the handle is closed and set to None, and so is
\* the line counter.
ClosedReader(r) ==
    IF r.file_handle.open
    THEN [r EXCEPT !.file_handle = Closed, !.current_line_nb = 0]
    ELSE r

NoCodec ==
    /\ cls = "none"
    /\ mode = "r"
    /\ file_handle = Closed
    /\ current_line_nb = 0
    /\ next_id = None
    /\ end_of_file = FALSE

\* FastqIO(filepath, mode) / FastaIO(filepath, mode).  Mode "r" of a missing
\* file raises (gzip.open in isGzip) and builds no instance; "w" creates or
\* empties the file, "a" creates it when missing.
Open(c, m) ==
    /\ UNCHANGED FH_in
    /\ ~file_handle.open
    /\ nread' = 0
    /\ UNCHANGED <<rec, chain>>
    /\ IF m = "r" /\ ~fs.exists
       THEN /\ ret' = [op |-> "__init__", out |-> [tag |-> "FileNotFoundError"]]
            /\ UNCHANGED <<fs, codec, written>>
       ELSE /\ fs' = IF m = "w" THEN [exists |-> TRUE, content |-> <<>>]
                     ELSE [exists |-> TRUE, content |-> fs.content]
            /\ cls' = c
            /\ mode' = m
            /\ file_handle' = [open |-> TRUE,
                               pos |-> IF m = "a" THEN Len(fs.content) ELSE 0,
                               buf |-> <<>>]
            /\ current_line_nb' = 1
            /\ next_id' = None
            /\ end_of_file' = FALSE
            /\ written' = IF m = "w" THEN <<>> ELSE written
            /\ ret' = [op |-> "__init__", out |-> [tag |-> "ok"]]

\* write(sequence_record) of the caller's record.  file_handle.write() leaves
\* the text in the buffer of the stream (a record is far shorter than the
\* buffer); the file gets it when the buffer is flushed.
Write ==
    /\ UNCHANGED FH_in
    /\ cls # "none"
    /\ UNCHANGED <<cls, mode, next_id, end_of_file, rec, nread, chain>>
    /\ LET text == IF cls = "FastqIO" THEN seqToFastqLine(rec) ELSE seqToFastaLine(rec)
       IN  IF ~file_handle.open
           THEN /\ ret' = [op |-> "write", out |-> [tag |-> "AttributeError"]]
                /\ UNCHANGED <<fs, file_handle, current_line_nb, written>>
           ELSE IF text.tag # "str"
           THEN /\ ret' = [op |-> "write", out |-> [tag |-> text.tag]]
                /\ UNCHANGED <<fs, file_handle, current_line_nb, written>>
           ELSE IF mode = "r"
           THEN /\ ret' = [op |-> "write", out |-> [tag |-> "UnsupportedOperation"]]
                /\ UNCHANGED <<fs, file_handle, current_line_nb, written>>
           ELSE /\ Len(written) < MaxWrites
                /\ fs' = fs
                /\ file_handle' = [file_handle EXCEPT
                                     !.buf = @ \o text.val \o <<NL>>,
                                     !.pos = @ + Len(text.val) + 1]
                /\ current_line_nb' = current_line_nb + 1
                /\ written' = Append(written, cls)
                /\ ret' = [op |-> "write", out |-> [tag |-> "ok"]]

\* close(), also __del__: file_handle.close() writes the buffer to the file.
Close ==
    /\ UNCHANGED FH_in
    /\ cls # "none"
    /\ fs' = Flushed
    /\ file_handle' = Closed
    /\ current_line_nb' = IF file_handle.open THEN 0 ELSE current_line_nb
    /\ ret' = [op |-> "close", out |-> [tag |-> "ok"]]
    /\ UNCHANGED <<cls, mode, next_id, end_of_file, rec, written, nread, chain>>

\* __exit__(exc_type, exc_val, exc_tb), at the end of a "with" block over the
\* codec: close(), whether the block ends normally or by an exception; the
\* method returns None, so an exception raised in the block (the one of the
\* last call) goes on to the caller.
Exit ==
    /\ UNCHANGED FH_in
    /\ cls # "none"
    /\ fs' = Flushed
    /\ file_handle' = Closed
    /\ current_line_nb' = IF file_handle.open THEN 0 ELSE current_line_nb
    /\ ret' = [op |-> "__exit__",
               out |-> IF Raised(ret.out) THEN ret.out ELSE [tag |-> "ok"]]
    /\ UNCHANGED <<cls, mode, next_id, end_of_file, rec, written, nread, chain>>

\* A slip in FastqIO.nextSeq: the header line is counted before the test of
\* the end of the stream.
NextSeq_CountsSentinel ==
    /\ UNCHANGED FH_in
    /\ cls # "none"
    /\ nread' = IF nread = 0 THEN 1 ELSE 2
    /\ UNCHANGED <<cls, mode, rec, written, chain>>
    /\ IF cls = "FastaIO" /\ end_of_file
       THEN /\ ret' = [op |-> "nextSeq", out |-> [tag |-> "None"]]
            /\ UNCHANGED <<fs, file_handle, current_line_nb, next_id, end_of_file>>
       ELSE IF ~file_handle.open \/ mode # "r"
       THEN /\ ret' = [op |-> "nextSeq", out |-> ParseError(current_line_nb, cls)]
            /\ fs' = IF cls = "FastqIO" THEN Flushed ELSE fs
            /\ file_handle' = IF cls = "FastqIO" THEN [file_handle EXCEPT !.buf = <<>>]
                               ELSE file_handle
            /\ UNCHANGED <<current_line_nb, next_id, end_of_file>>
       ELSE IF cls = "FastqIO"
       THEN LET r == FastqNextSeq(Decode(fs.content), file_handle.pos, current_line_nb)
            IN  /\ ret' = [op |-> "nextSeq", out |-> r.ret]
                /\ fs' = fs
                /\ file_handle' = [file_handle EXCEPT !.pos = r.pos]
                /\ current_line_nb' = IF r.ret.tag = "None" THEN r.line_nb + 1 ELSE r.line_nb
                /\ UNCHANGED <<next_id, end_of_file>>
       ELSE LET r == FastaNextSeq(Decode(fs.content), file_handle.pos, current_line_nb,
                                  next_id, end_of_file)
            IN  /\ ret' = [op |-> "nextSeq", out |-> r.ret]
                /\ fs' = fs
                /\ file_handle' = [file_handle EXCEPT !.pos = r.pos]
                /\ current_line_nb' = r.line_nb
                /\ next_id' = r.next_id
                /\ end_of_file' = r.end_of_file

\* nextSeq().  A readline() on a closed codec (file_handle is None) or on a
\* writer raises inside the try block, which reports it as a parse failure;
\* the tell() that FastqIO.nextSeq calls before it flushes the buffer of a
\* writer.
NextSeq ==
    /\ UNCHANGED FH_in
    /\ cls # "none"
    /\ nread' = IF nread = 0 THEN 1 ELSE 2   \* none, the first, a later one
    /\ UNCHANGED <<cls, mode, rec, written, chain>>
    /\ IF cls = "FastaIO" /\ end_of_file
       THEN /\ ret' = [op |-> "nextSeq", out |-> [tag |-> "None"]]
            /\ UNCHANGED <<fs, file_handle, current_line_nb, next_id, end_of_file>>
       ELSE IF ~file_handle.open \/ mode # "r"
       THEN /\ ret' = [op |-> "nextSeq", out |-> ParseError(current_line_nb, cls)]
            /\ fs' = IF cls = "FastqIO" THEN Flushed ELSE fs
            /\ file_handle' = IF cls = "FastqIO" THEN [file_handle EXCEPT !.buf = <<>>]
                               ELSE file_handle
            /\ UNCHANGED <<current_line_nb, next_id, end_of_file>>
       ELSE IF cls = "FastqIO"
       THEN LET r == FastqNextSeq(Decode(fs.content), file_handle.pos, current_line_nb)
            IN  /\ ret' = [op |-> "nextSeq", out |-> r.ret]
                /\ fs' = fs
                /\ file_handle' = [file_handle EXCEPT !.pos = r.pos]
                /\ current_line_nb' = r.line_nb
                /\ UNCHANGED <<next_id, end_of_file>>
       ELSE LET r == FastaNextSeq(Decode(fs.content), file_handle.pos, current_line_nb,
                                  next_id, end_of_file)
            IN  /\ ret' = [op |-> "nextSeq", out |-> r.ret]
                /\ fs' = fs
                /\ file_handle' = [file_handle EXCEPT !.pos = r.pos]
                /\ current_line_nb' = r.line_nb
                /\ next_id' = r.next_id
                /\ end_of_file' = r.end_of_file

(***************************************************************************)
(* The static methods, which open the file with a codec of their own and   *)
(* close it before they return.  The caller probes the file before it      *)
(* builds a codec on it, as SequenceFileReader.factory does.               *)
(***************************************************************************)
\* A slip in isValid: the finally clause is missing, and the reader stays
\* open when the call returns.
FastqIsValidCall_NoFinally ==
    /\ cls = "none"
    /\ FH_in' = IF fs.exists THEN BuiltReader("FastqIO") ELSE NoReader
    /\ ret' = IF ~fs.exists
              THEN [op |-> "FastqIO.isValid", out |-> [tag |-> "FileNotFoundError"]]
              ELSE [op |-> "FastqIO.isValid",
                    out |-> [tag |-> "bool", val |-> FastqIsValid(Decode(fs.content))]]
    /\ UNCHANGED <<fs, codec, rec, written, nread, chain>>

\* FastqIO.isValid(filepath): the constructor is called outside the try
\* block, and raises when the file is missing; the finally clause closes the
\* reader, whatever the loop did.
FastqIsValidCall ==
    /\ cls = "none"
    /\ FH_in' = IF fs.exists THEN ClosedReader(BuiltReader("FastqIO")) ELSE NoReader
    /\ ret' = IF ~fs.exists
              THEN [op |-> "FastqIO.isValid", out |-> [tag |-> "FileNotFoundError"]]
              ELSE [op |-> "FastqIO.isValid",
                    out |-> [tag |-> "bool", val |-> FastqIsValid(Decode(fs.content))]]
    /\ UNCHANGED <<fs, codec, rec, written, nread, chain>>

\* FastaIO.isValid(filepath)
FastaIsValidCall ==
    /\ cls = "none"
    /\ FH_in' = IF fs.exists THEN ClosedReader(BuiltReader("FastaIO")) ELSE NoReader
    /\ ret' = IF ~fs.exists
              THEN [op |-> "FastaIO.isValid", out |-> [tag |-> "FileNotFoundError"]]
              ELSE [op |-> "FastaIO.isValid",
                    out |-> [tag |-> "bool", val |-> FastaIsValid(Decode(fs.content))]]
    /\ UNCHANGED <<fs, codec, rec, written, nread, chain>>

\* FastqIO.qualOffset(filepath): the reader is the subject of a with block,
\* whose __exit__ closes it when the block returns and when it raises.
QualOffsetCall ==
    /\ cls = "none"
    /\ FH_in' = IF fs.exists THEN ClosedReader(BuiltReader("FastqIO")) ELSE NoReader
    /\ ret' = IF ~fs.exists
              THEN [op |-> "FastqIO.qualOffset", out |-> [tag |-> "FileNotFoundError"]]
              ELSE [op |-> "FastqIO.qualOffset", out |-> qualOffset(Decode(fs.content))]
    /\ UNCHANGED <<fs, codec, rec, written, nread, chain>>

\* IOError("The file " + filepath + " does not have a valid format for
\* 'SequenceFileReader'.")
FormatError == [tag |-> "IOError", path |-> "filepath", by |-> "SequenceFileReader"]

\* The reader that FastqIO(filepath) or FastaIO(filepath) builds.
NewReader(c) ==
    /\ cls' = c
    /\ mode' = "r"
    /\ file_handle' = [open |-> TRUE, pos |-> 0, buf |-> <<>>]
    /\ current_line_nb' = 1
    /\ next_id' = None
    /\ end_of_file' = FALSE

\* A slip in the selection: the FASTA detector is tried first.
Factory_FastaFirst ==
    /\ cls = "none"
    /\ nread' = 0
    /\ FH_in' = IF ~fs.exists THEN NoReader
                ELSE IF FastaIsValid(Decode(fs.content))
                THEN ClosedReader(BuiltReader("FastaIO"))
                ELSE ClosedReader(BuiltReader("FastqIO"))
    /\ UNCHANGED <<fs, rec, written, chain>>
    /\ IF ~fs.exists
       THEN /\ ret' = [op |-> "factory", out |-> [tag |-> "FileNotFoundError"]]
            /\ UNCHANGED codec
       ELSE IF FastaIsValid(Decode(fs.content))
       THEN /\ NewReader("FastaIO")
            /\ ret' = [op |-> "factory", out |-> [tag |-> "codec", val |-> "FastaIO"]]
       ELSE IF FastqIsValid(Decode(fs.content))
       THEN /\ NewReader("FastqIO")
            /\ ret' = [op |-> "factory", out |-> [tag |-> "codec", val |-> "FastqIO"]]
       ELSE /\ ret' = [op |-> "factory", out |-> FormatError]
            /\ UNCHANGED codec

\* SequenceFileReader.factory(filepath).  FastqIO.isValid raises when the file
\* is missing; the codecs the detectors build are closed when they return.
Factory ==
    /\ cls = "none"
    /\ nread' = 0
    /\ FH_in' = IF ~fs.exists THEN NoReader
                ELSE IF FastqIsValid(Decode(fs.content))
                THEN ClosedReader(BuiltReader("FastqIO"))
                ELSE ClosedReader(BuiltReader("FastaIO"))
    /\ UNCHANGED <<fs, rec, written, chain>>
    /\ IF ~fs.exists
       THEN /\ ret' = [op |-> "factory", out |-> [tag |-> "FileNotFoundError"]]
            /\ UNCHANGED codec
       ELSE IF FastqIsValid(Decode(fs.content))
       THEN /\ NewReader("FastqIO")
            /\ ret' = [op |-> "factory", out |-> [tag |-> "codec", val |-> "FastqIO"]]
       ELSE IF FastaIsValid(Decode(fs.content))
       THEN /\ NewReader("FastaIO")
            /\ ret' = [op |-> "factory", out |-> [tag |-> "codec", val |-> "FastaIO"]]
       ELSE /\ ret' = [op |-> "factory", out |-> FormatError]
            /\ UNCHANGED codec

(***************************************************************************)
(* The environment: the file is put together line by line before a codec   *)
(* is built on it.                                                         *)
(***************************************************************************)
\* The number of times the environment added what.
Added(what) == Cardinality({i \in 1..Len(written) : written[i] = what})

AppendLines(what, text) ==
    /\ UNCHANGED FH_in
    /\ fs.exists
    /\ cls = "none"
    /\ fs' = [fs EXCEPT !.content = @ \o text]
    /\ written' = Append(written, what)
    /\ ret' = NoCall
    /\ UNCHANGED <<codec, rec, nread, chain>>

(***************************************************************************)
(* Spec: a caller holding one record writes it with a codec and reads the  *)
(* file back with a codec.                                                 *)
(***************************************************************************)
MaxIdLen == 1
MaxDescLen == 2
MaxSeqLen == 1

StrUpTo(alphabet, n) == UNION {[1..k -> alphabet] : k \in 0..n}

\* "I" repeated n times
Quals(n) == [i \in 1..n |-> 73]

\* The records of the caller: ids and descriptions with and without spaces,
\* residues with a line break or a ">", a quality that is absent, as long as
\* the residues or one longer.
Records ==
    {Sequence(i, s, d, IF q < 0 THEN None ELSE Some(Quals(Len(s) + q))) :
        i \in StrUpTo({97, SP}, MaxIdLen),
        s \in StrUpTo({65, NL, GT}, MaxSeqLen),
        d \in {None} \cup {Some(x) : x \in StrUpTo({100, SP}, MaxDescLen)},
        q \in {-1, 0, 1}}

Init ==
    /\ fs = [exists |-> FALSE, content |-> <<>>]
    /\ NoCodec
    /\ rec \in Records
    /\ ret = NoCall
    /\ written = <<>>
    /\ nread = 0
    /\ chain = <<>>
    /\ FH_in = NoReader

Next ==
    \/ \E c \in {"FastqIO", "FastaIO"}, m \in {"r", "w", "a"} : Open(c, m)
    \/ Write
    \/ Close
    \/ NextSeq

Spec == Init /\ [][Next]_vars

(***************************************************************************)
(* SpecRevCom: a caller holding one record takes reverse complements of    *)
(* it, each of the record the previous call returned.                      *)
(***************************************************************************)
MaxDnaLen == 2
MaxChain == 2

\* The last record of the chain, rec when no call returned yet.
Current == IF chain = <<>> THEN rec ELSE chain[Len(chain)].val

DnaRevCom ==
    /\ UNCHANGED FH_in
    /\ Len(chain) < MaxChain
    /\ LET r == dnaRevCom(Current)
       IN  /\ ret' = [op |-> "dnaRevCom", out |-> r]
           /\ chain' = IF r.tag = "record"
                       THEN Append(chain, [by |-> "dnaRevCom", of |-> Current, val |-> r.val])
                       ELSE chain
    /\ UNCHANGED <<fs, codec, rec, written, nread>>

RnaRevCom ==
    /\ UNCHANGED FH_in
    /\ Len(chain) < MaxChain
    /\ LET r == rnaRevCom(Current)
       IN  /\ ret' = [op |-> "rnaRevCom", out |-> r]
           /\ chain' = IF r.tag = "record"
                       THEN Append(chain, [by |-> "rnaRevCom", of |-> Current, val |-> r.val])
                       ELSE chain
    /\ UNCHANGED <<fs, codec, rec, written, nread>>

\* "I", "J", "K", ...: a quality whose reversal shows
Ramp(n) == [i \in 1..n |-> 72 + i]

\* Residues over every key of the complement tables and "X", which is no key.
RevComRecords ==
    {Sequence(<<97>>, s, d, IF q THEN Some(Ramp(Len(s))) ELSE None) :
        s \in StrUpTo(DOMAIN dna_complement \cup {88}, MaxDnaLen),
        d \in {None, Some(<<100>>)},
        q \in BOOLEAN}

\* "ACGTN", with the quality "IJKLM" and without quality
RevComExamples ==
    {Sequence(<<97>>, <<65, 67, 71, 84, 78>>, None, q) : q \in {None, Some(Ramp(5))}}

InitRevCom ==
    /\ fs = [exists |-> FALSE, content |-> <<>>]
    /\ NoCodec
    /\ rec \in RevComRecords \cup RevComExamples
    /\ ret = NoCall
    /\ written = <<>>
    /\ nread = 0
    /\ chain = <<>>
    /\ FH_in = NoReader

NextRevCom == DnaRevCom \/ RnaRevCom

SpecRevCom == InitRevCom /\ [][NextRevCom]_vars

(***************************************************************************)
(* Round trips (C1, C2).                                                   *)
(***************************************************************************)
NoNewline(s) == \A i \in 1..Len(s) : s[i] \notin {NL, CR}

\* A non-empty str without whitespace: what split() returns as a field.
IsToken(s) == s # <<>> /\ \A i \in 1..Len(s) : s[i] \notin Whitespace

\* A str without line break and without whitespace at either end.
IsTrimmed(s) ==
    /\ NoNewline(s)
    /\ s # <<>> => (s[1] \notin Whitespace /\ s[Len(s)] \notin Whitespace)

HeaderNoNewline(r) ==
    NoNewline(r.id) /\ (r.description.some => NoNewline(r.description.val))

\* The header fields survive "@id description" -> strip -> split(None, 1).
HeaderParses(r) ==
    /\ IsToken(r.id)
    /\ r.description.some => (r.description.val # <<>> /\ IsTrimmed(r.description.val))

\* The first nextSeq of a reader of class c on a file that holds the one
\* record a writer of class c wrote to it after creating or emptying it.
ReadBack(c) ==
    /\ cls = c
    /\ mode = "r"
    /\ file_handle.open
    /\ written = <<c>>
    /\ ret.op = "nextSeq"
    /\ nread = 1

\* The record is one of the data model: its id is a non-empty token and its
\* residues are letters.
InDataModel(r) ==
    /\ IsToken(r.id)
    /\ \A i \in 1..Len(r.string) : r.string[i] \in Letters

\* C1 as stated: a record (of the data model) with as many quality codes as
\* residues and no newline in its header is read back from a FASTQ file as it
\* was written.
C1_FastqRoundTripStated ==
    (/\ ReadBack("FastqIO")
     /\ InDataModel(rec)
     /\ rec.quality.some
     /\ Len(rec.quality.val) = Len(rec.string)
     /\ HeaderNoNewline(rec))
    => (ret.out.tag = "record" /\ ret.out.val = rec)

\* C1 amended: the same, for a record whose id is a non-empty str without
\* whitespace, whose description is absent or a non-empty str without line
\* break and without whitespace at its ends, and whose residues and quality
\* have no line break and no whitespace at their ends.
C1_FastqRoundTrip ==
    (/\ ReadBack("FastqIO")
     /\ rec.quality.some
     /\ Len(rec.quality.val) = Len(rec.string)
     /\ HeaderNoNewline(rec)
     /\ HeaderParses(rec)
     /\ IsTrimmed(rec.string)
     /\ IsTrimmed(rec.quality.val))
    => (ret.out.tag = "record" /\ ret.out.val = rec)

C1_Witness ==
    /\ ReadBack("FastqIO")
    /\ HeaderParses(rec)
    /\ rec.description.some
    /\ rec.string # <<>>
    /\ IsTrimmed(rec.string)
    /\ rec.quality.some
    /\ Len(rec.quality.val) = Len(rec.string)
    /\ ret.out.tag = "record"
    /\ ret.out.val = rec

\* C2 as stated: a record (of the data model) with no newline in its header is
\* read back from a FASTA file with its id, description and residues, and
\* without quality.
C2_FastaRoundTripStated ==
    (ReadBack("FastaIO") /\ InDataModel(rec) /\ HeaderNoNewline(rec))
    => (/\ ret.out.tag = "record"
        /\ ret.out.val = Sequence(rec.id, rec.string, rec.description, None))

\* C2 amended: the same, for a record whose id is a non-empty str without
\* whitespace, whose description is absent or a non-empty str without line
\* break and without whitespace at its ends, and whose residues have no line
\* break, no whitespace at their ends and do not start with ">".
C2_FastaRoundTrip ==
    (/\ ReadBack("FastaIO")
     /\ HeaderNoNewline(rec)
     /\ HeaderParses(rec)
     /\ IsTrimmed(rec.string)
     /\ ~StartsWith(rec.string, GT))
    => (/\ ret.out.tag = "record"
        /\ ret.out.val = Sequence(rec.id, rec.string, rec.description, None))

C2_Witness ==
    /\ ReadBack("FastaIO")
    /\ HeaderParses(rec)
    /\ rec.description.some
    /\ rec.string # <<>>
    /\ IsTrimmed(rec.string)
    /\ ~StartsWith(rec.string, GT)
    /\ rec.quality.some
    /\ ret.out.tag = "record"
    /\ ret.out.val = Sequence(rec.id, rec.string, rec.description, None)

(***************************************************************************)
(* Reverse complement twice (C3).                                          *)
(***************************************************************************)
InDnaTable(s) == \A i \in 1..Len(s) : s[i] \in DOMAIN dna_complement

\* dnaRevCom was applied to rec and then to the record that returned.
DnaTwice ==
    /\ Len(chain) >= 2
    /\ chain[1].by = "dnaRevCom"
    /\ chain[2].by = "dnaRevCom"

\* C3 as stated: dnaRevCom twice gives back the record, for residues made of
\* keys of the DNA complement table.
C3_DnaRevComTwiceStated ==
    (DnaTwice /\ InDnaTable(rec.string)) => chain[2].val = rec

\* C3 amended: dnaRevCom twice gives back the record, for residues made of
\* keys of the DNA complement table other than "U" and "u" (which come back
\* as "T" and "t").
C3_DnaRevComTwice ==
    (/\ DnaTwice
     /\ InDnaTable(rec.string)
     /\ \A i \in 1..Len(rec.string) : rec.string[i] \notin {85, 117})
    => chain[2].val = rec

C3_Witness ==
    /\ DnaTwice
    /\ Len(rec.string) >= 2
    /\ rec.string[1] # rec.string[2]
    /\ rec.quality.some
    /\ chain[1].val # rec
    /\ chain[2].val = rec

(***************************************************************************)
(* SpecFastq: a file made of lines of FASTQ files, in any order, probed    *)
(* with the static methods and read with a FastqIO.                        *)
(***************************************************************************)
MaxFastqLines == 5

\* "@r d" with a Windows line break, an empty line, "+", "Z", "NAAAA",
\* ":ZZZZ" (":" is the code 58).
FastqLines ==
    { <<AT, 114, SP, 100, CR, NL>>,
      <<NL>>,
      <<PLUS, NL>>,
      <<90, NL>>,
      <<chN, 65, 65, 65, 65, NL>>,
      <<58, 90, 90, 90, 90, NL>> }

AppendFastqLine ==
    /\ Added("line") < MaxFastqLines
    /\ \E l \in FastqLines : AppendLines("line", l)

\* The record the caller holds plays no part in these specifications.
NoRecord == Sequence(<<>>, <<>>, None, None)

InitFiles ==
    /\ fs \in {[exists |-> FALSE, content |-> <<>>], [exists |-> TRUE, content |-> <<>>]}
    /\ NoCodec
    /\ rec = NoRecord
    /\ ret = NoCall
    /\ written = <<>>
    /\ nread = 0
    /\ chain = <<>>
    /\ FH_in = NoReader

NextFastq ==
    \/ AppendFastqLine
    \/ FastqIsValidCall
    \/ QualOffsetCall
    \/ Open("FastqIO", "r")
    \/ NextSeq
    \/ Close

SpecFastq == InitFiles /\ [][NextFastq]_vars

(***************************************************************************)
(* SpecFasta: a file made of FASTA records and of single lines, in any     *)
(* order, probed with FastaIO.isValid.                                     *)
(***************************************************************************)
MaxFastaRecords == 10
MaxFastaLines == 2

\* ">s d" and "ACGT"
FastaRecord == <<GT, 115, SP, 100, NL, 65, 67, 71, 84, NL>>

\* ">x", "AC" and an empty line
FastaLines == { <<GT, 120, NL>>, <<65, 67, NL>>, <<NL>> }

AppendFastaRecord ==
    /\ Added("record") < MaxFastaRecords
    /\ AppendLines("record", FastaRecord)

AppendFastaLine ==
    /\ Added("line") < MaxFastaLines
    /\ \E l \in FastaLines : AppendLines("line", l)

NextFasta ==
    \/ AppendFastaRecord
    \/ AppendFastaLine
    \/ FastaIsValidCall

SpecFasta == InitFiles /\ [][NextFasta]_vars

(***************************************************************************)
(* The file as its lines and its FASTQ records: nextSeq and isValid take   *)
(* the lines four by four, so that record j is the lines 4j-3 to 4j, the   *)
(* last record being short of lines when the stream ends inside it.        *)
(***************************************************************************)
FileLines == Lines(Decode(fs.content))

LineAt(lines, k) == IF k <= Len(lines) THEN lines[k] ELSE <<>>

FastqRecordsOf(lines) ==
    [j \in 1..((Len(lines) + 3) \div 4) |->
        [header |-> LineAt(lines, 4 * j - 3),
         residues |-> Strip(LineAt(lines, 4 * j - 2)),
         quality |-> Strip(LineAt(lines, 4 * j)),
         whole |-> 4 * j <= Len(lines)]]

FileRecords == FastqRecordsOf(FileLines)

OnlyLetters(s) == \A i \in 1..Len(s) : s[i] \in Letters

\* The record is whole and a FASTQ record: "@" header, letters, separator,
\* and as many quality codes as residues.
WellFormed(r) ==
    /\ r.whole
    /\ StartsWith(r.header, AT)
    /\ OnlyLetters(r.residues)
    /\ Len(r.quality) = Len(r.residues)

\* The first nextSeq of an open FastqIO reader.
FirstFastqRead ==
    /\ cls = "FastqIO"
    /\ mode = "r"
    /\ file_handle.open
    /\ ret.op = "nextSeq"
    /\ nread = 1

\* C4: when the stream ends inside the first record (after its header, its
\* sequence line or its separator), nextSeq raises a parse failure, which
\* carries the line number and the path, and returns no record.
C4_TruncatedRecordFails ==
    (/\ FirstFastqRead
     /\ Len(FileLines) \in 1..3
     /\ StartsWith(FileLines[1], AT))
    => (ret.out.tag = "IOError" /\ ret.out.path = "filepath" /\ ret.out.line \in 1..4)

\* C5: qualOffset returns None for a file without any quality code.
C5_NoQualityCodeGivesNone ==
    (/\ ret.op = "FastqIO.qualOffset"
     /\ fs.exists
     /\ LET R == FileRecords IN \A j \in DOMAIN R : R[j].quality = <<>>)
    => ret.out.tag = "None"

\* C6: qualOffset returns 64 for a file (of well-formed records) that has a
\* quality code and whose quality codes are all 90 or more.
C6_HighCodesGive64 ==
    (/\ ret.op = "FastqIO.qualOffset"
     /\ fs.exists
     /\ LET R == FileRecords
        IN  /\ \A j \in DOMAIN R : WellFormed(R[j])
            /\ \E j \in DOMAIN R : R[j].quality # <<>>
            /\ \A j \in DOMAIN R : \A i \in 1..Len(R[j].quality) : R[j].quality[i] >= 90)
    => (ret.out.tag = "int" /\ ret.out.val = 64)

\* C7: qualOffset returns 33 for a file in which the quality line of a
\* (well-formed) record has a code below 59, whatever else the file holds.
C7_LowCodeGives33 ==
    (/\ ret.op = "FastqIO.qualOffset"
     /\ fs.exists
     /\ LET R == FileRecords
        IN  \E j \in DOMAIN R :
                /\ WellFormed(R[j])
                /\ \E i \in 1..Len(R[j].quality) : R[j].quality[i] < LowCode)
    => (ret.out.tag = "int" /\ ret.out.val = 33)

\* What C8 says of a valid file: each of the first FastqMaxRecords records is
\* whole and well formed.
C8_Valid(R) == \A j \in DOMAIN R : j <= FastqMaxRecords => WellFormed(R[j])

\* C8: FastqIO.isValid returns true exactly for these files.
C8_IsValidExactly ==
    (ret.op = "FastqIO.isValid" /\ fs.exists)
    => (ret.out.tag = "bool" /\ (ret.out.val <=> C8_Valid(FileRecords)))

\* Which lines start with ">".
HeaderFlags(lines) == [k \in 1..Len(lines) |-> StartsWith(lines[k], GT)]

\* The header lines among the first k lines.
HeadersUpTo(H, k) == Cardinality({i \in 1..k : H[i]})

\* C9 as stated: in a file FastaIO.isValid accepts, the first line starts
\* with ">" and no header line is followed by a header line.
C9_ValidFastaShapeStated ==
    (ret.op = "FastaIO.isValid" /\ ret.out.tag = "bool" /\ ret.out.val)
    => LET H == HeaderFlags(FileLines)
       IN  /\ Len(H) > 0 => H[1]
           /\ \A k \in 1..(Len(H) - 1) : ~(H[k] /\ H[k + 1])

\* C9 amended: in a file FastaIO.isValid accepts, the first line starts with
\* ">" and, among the lines up to the 10th header line, no header line is
\* followed by a header line.
C9_ValidFastaShape ==
    (ret.op = "FastaIO.isValid" /\ ret.out.tag = "bool" /\ ret.out.val)
    => LET H == HeaderFlags(FileLines)
       IN  /\ Len(H) > 0 => H[1]
           /\ \A k \in 1..(Len(H) - 1) :
                  (H[k] /\ H[k + 1]) => HeadersUpTo(H, k + 1) > FastaMaxRecords

C9_Witness ==
    /\ ret.op = "FastaIO.isValid"
    /\ ret.out.tag = "bool"
    /\ ret.out.val
    /\ LET H == HeaderFlags(FileLines)
       IN  /\ HeadersUpTo(H, Len(H)) > FastaMaxRecords
           /\ \E k \in 1..Len(H) : ~H[k]

\* C10: the isValid methods raise nothing; they return a boolean.
C10_IsValidNeverRaises ==
    ret.op \in {"FastqIO.isValid", "FastaIO.isValid"} => ret.out.tag = "bool"

(***************************************************************************)
(* SpecRead and SpecFactory: a file made of lines of FASTA and FASTQ files, *)
(* in any order, read with a codec built on it directly (SpecRead) or got  *)
(* from SequenceFileReader.factory (SpecFactory).                          *)
(***************************************************************************)
MaxReadLines == 5

\* ">a d", "@r", "AC", "+", and " CA" ended by a lone carriage return.
ReadLines ==
    { <<GT, 97, SP, 100, NL>>,
      <<AT, 114, NL>>,
      <<65, 67, NL>>,
      <<PLUS, NL>>,
      <<SP, 67, 65, CR>> }

AppendReadLine ==
    /\ Added("line") < MaxReadLines
    /\ \E l \in ReadLines : AppendLines("line", l)

NextRead ==
    \/ AppendReadLine
    \/ Open("FastqIO", "r")
    \/ Open("FastaIO", "r")
    \/ NextSeq
    \/ Close

SpecRead == InitFiles /\ [][NextRead]_vars

\* The lines of ReadLines and "@", a header without id.
FactoryLines == ReadLines \cup { <<AT, NL>> }

AppendFactoryLine ==
    /\ Added("line") < MaxReadLines
    /\ \E l \in FactoryLines : AppendLines("line", l)

NextFactory ==
    \/ AppendFactoryLine
    \/ Factory
    \/ NextSeq
    \/ Close

SpecFactory == InitFiles /\ [][NextFactory]_vars

(***************************************************************************)
(* The selection of the codec (C11).                                       *)
(***************************************************************************)
\* The codec is an open reader of class c at the start of the file.
FreshReader(c) ==
    /\ cls = c
    /\ mode = "r"
    /\ file_handle = [open |-> TRUE, pos |-> 0, buf |-> <<>>]
    /\ current_line_nb = 1

\* C11: on an existing file, factory returns a FASTQ reader when
\* FastqIO.isValid accepts the file (also when FastaIO.isValid accepts it
\* too), a FASTA reader when FastqIO.isValid rejects it and FastaIO.isValid
\* accepts it, and otherwise builds no codec and raises the error that names
\* the path.
C11_FactorySelection ==
    (ret.op = "factory" /\ fs.exists)
    => LET text == Decode(fs.content)
       IN  /\ FastqIsValid(text)
                => (ret.out = [tag |-> "codec", val |-> "FastqIO"] /\ FreshReader("FastqIO"))
           /\ (~FastqIsValid(text) /\ FastaIsValid(text))
                => (ret.out = [tag |-> "codec", val |-> "FastaIO"] /\ FreshReader("FastaIO"))
           /\ (~FastqIsValid(text) /\ ~FastaIsValid(text))
                => (ret.out.tag = "IOError" /\ ret.out.path = "filepath" /\ cls = "none")

C11_Witness ==
    /\ ret.op = "factory"
    /\ fs.content # <<>>
    /\ ~FastqIsValid(Decode(fs.content))
    /\ FastaIsValid(Decode(fs.content))
    /\ ret.out = [tag |-> "codec", val |-> "FastaIO"]
    /\ FreshReader("FastaIO")

(***************************************************************************)
(* The first read of a file with no lines (C12).                           *)
(***************************************************************************)
\* The last call was the first nextSeq() of an open reader.
FirstRead ==
    /\ ret.op = "nextSeq"
    /\ nread = 1
    /\ file_handle.open
    /\ mode = "r"

\* C12: on a file with no lines, the first nextSeq() of a FASTQ reader and
\* of a FASTA reader returns None and reports no parse failure.
C12_EmptyFileGivesNone ==
    (FirstRead /\ fs.content = <<>>) => ret.out.tag = "None"

(***************************************************************************)
(* SpecRecords: a file made of whole records of one format, a few of them  *)
(* malformed, ended or not by one line that belongs to no format; the file *)
(* is probed with both isValid and read with a FASTQ reader.               *)
(***************************************************************************)
MaxUnits == 11
MaxMalformed == 2

\* "@r d", "AC", "+", "ZZ"
FastqUnit == <<AT, 114, SP, 100, NL, 65, 67, NL, PLUS, NL, 90, 90, NL>>

\* "@s", "AC", "+", "Z": the quality is shorter than the sequence
ShortQualityUnit == <<AT, 115, NL, 65, 67, NL, PLUS, NL, 90, NL>>

\* ">s d", "AC"
FastaUnit == <<GT, 115, SP, 100, NL, 65, 67, NL>>

\* ">x": a header without sequence
BareHeaderUnit == <<GT, 120, NL>>

\* "junk" and a line that opens with a byte the decoder rejects
TailUnits ==
    { <<106, 117, 110, 107, NL>>,
      <<BadByte, NL>> }

UnitsOf(kind) ==
    IF kind = "fastq" THEN {FastqUnit}
    ELSE IF kind = "short quality" THEN {ShortQualityUnit}
    ELSE IF kind = "fasta" THEN {FastaUnit}
    ELSE IF kind = "bare header" THEN {BareHeaderUnit}
    ELSE TailUnits

FamilyOf(kind) ==
    IF kind \in {"fastq", "short quality"} THEN "fastq"
    ELSE IF kind \in {"fasta", "bare header"} THEN "fasta"
    ELSE "tail"

AppendUnit ==
    /\ Len(written) < MaxUnits
    /\ \E kind \in {"fastq", "short quality", "fasta", "bare header", "tail"} :
          /\ written # <<>> => /\ written[Len(written)] # "tail"
                               /\ FamilyOf(kind) \in {FamilyOf(written[1]), "tail"}
          /\ kind \in {"short quality", "bare header"} => Added(kind) < MaxMalformed
          /\ \E u \in UnitsOf(kind) : AppendLines(kind, u)

NextRecords ==
    \/ AppendUnit
    \/ FastqIsValidCall
    \/ FastaIsValidCall
    \/ Open("FastqIO", "r")
    \/ NextSeq

SpecRecords == InitFiles /\ [][NextRecords]_vars

(***************************************************************************)
(* A quality shorter than the sequence (C13).                              *)
(***************************************************************************)
\* The four lines at position pos of a text are a record with an id in its
\* "@" header and with a quality line shorter than its sequence line.
ShortQualityAt(text, pos) ==
    LET h == ReadLine(text, pos)
        s == ReadLine(text, h.pos)
        p == ReadLine(text, s.pos)
        q == ReadLine(text, p.pos)
    IN  /\ ~Garbled(text)
        /\ StartsWith(h.line, AT)
        /\ Split1(Tail1(Strip(h.line))) # <<>>
        /\ q.line # <<>>
        /\ Len(Strip(q.line)) < Len(Strip(s.line))

\* One of the first FastqMaxRecords records has its four lines and a quality
\* shorter than its sequence.
ShortQualityAmongFirst(R) ==
    \E j \in DOMAIN R :
        /\ j <= FastqMaxRecords
        /\ R[j].whole
        /\ Len(R[j].quality) < Len(R[j].residues)

\* C13: FastqIO.isValid returns False for a file one of whose first 10
\* records has a quality line shorter than its sequence line, while nextSeq
\* of a FASTQ reader that stands at such a record raises nothing and returns
\* a record whose quality is shorter than its residues.
C13_ShortQuality ==
    [][/\ (ret'.op = "FastqIO.isValid" /\ fs.exists /\ ShortQualityAmongFirst(FileRecords))
            => ret'.out = [tag |-> "bool", val |-> FALSE]
       /\ (/\ ret'.op = "nextSeq"
           /\ cls = "FastqIO"
           /\ mode = "r"
           /\ file_handle.open
           /\ ShortQualityAt(Decode(fs.content), file_handle.pos))
            => /\ ret'.out.tag = "record"
               /\ Len(ret'.out.val.quality.val) < Len(ret'.out.val.string)]_vars

\* A reader has returned the second or a later record of the file, whose
\* quality is shorter than its residues.
C13_Witness ==
    /\ cls = "FastqIO"
    /\ ret.op = "nextSeq"
    /\ ret.out.tag = "record"
    /\ current_line_nb > 5
    /\ Len(ret.out.val.quality.val) < Len(ret.out.val.string)
    /\ ~FastqIsValid(Decode(fs.content))

(***************************************************************************)
(* The end of the iteration (C14).                                         *)
(***************************************************************************)
\* The last call on the open reader was a nextSeq() that returned None.
SentinelReturned ==
    /\ ret = [op |-> "nextSeq", out |-> [tag |-> "None"]]
    /\ file_handle.open
    /\ mode = "r"

\* C14: when nextSeq() of an open reader has returned None, the next
\* nextSeq() of this reader returns None too, and leaves the line counter,
\* the pending header, the end-of-stream flag and the position in the stream
\* as they were; the reader being again in the same case, so does every later
\* call.
C14_NotRestartable ==
    [][(SentinelReturned /\ ret'.op = "nextSeq")
        => /\ ret'.out.tag = "None"
           /\ UNCHANGED <<cls, file_handle, current_line_nb, next_id, end_of_file>>]_vars

\* A reader that has returned a whole record returns None at a later call.
C14_Witness ==
    /\ SentinelReturned
    /\ nread = 2
    /\ current_line_nb > 1
    /\ fs.content # <<>>

(***************************************************************************)
(* SpecScope: the detectors and qualOffset, which build a reader of their  *)
(* own, and codecs used in "with" blocks or closed by hand.                *)
(***************************************************************************)
NextScope ==
    \/ AppendReadLine
    \/ FastqIsValidCall
    \/ FastaIsValidCall
    \/ QualOffsetCall
    \/ Open("FastqIO", "r")
    \/ Open("FastaIO", "r")
    \/ NextSeq
    \/ Exit
    \/ Close

SpecScope == InitFiles /\ [][NextScope]_vars

\* The calls that build a reader of their own, and the class of that reader.
ReaderOf ==
    [x \in {"FastqIO.isValid", "FastaIO.isValid", "FastqIO.qualOffset"} |->
        IF x = "FastaIO.isValid" THEN "FastaIO" ELSE "FastqIO"]

\* C15: when a "with" block over a codec has ended, normally or by an
\* exception raised inside it, and when close() has returned, the file handle
\* of the codec is closed and None (as is its line counter); when isValid or
\* qualOffset has returned or raised on an existing file, the reader it built
\* is of its class and its file handle is closed and None (on a missing file
\* it built none); close() on a closed codec raises nothing and changes
\* nothing.
C15_HandleReleased ==
    [][/\ ret'.op \in {"__exit__", "close"}
            => (file_handle' = Closed /\ current_line_nb' = 0)
       /\ ret'.op \in DOMAIN ReaderOf
            => /\ FH_in'.cls = IF fs.exists THEN ReaderOf[ret'.op] ELSE "none"
               /\ FH_in'.file_handle = Closed
               /\ FH_in'.current_line_nb = 0
       /\ (ret'.op = "close" /\ ~file_handle.open)
            => (ret'.out.tag = "ok" /\ UNCHANGED <<codec, fs>>)]_vars

\* A detector has returned and left its reader closed; afterwards a block
\* over a codec has ended by the parse failure of a nextSeq(), and the codec
\* is closed.
C15_Witness ==
    /\ FH_in.cls = "FastaIO"
    /\ FH_in.file_handle = Closed
    /\ ret.op = "__exit__"
    /\ ret.out.tag = "IOError"
    /\ nread > 0
    /\ file_handle = Closed
    /\ current_line_nb = 0

(***************************************************************************)
(* What the detectors read (C16).                                          *)
(***************************************************************************)
\* The position in the text after n lines from position pos, or the end of
\* the text when it has fewer lines.
RECURSIVE AfterLines(_, _, _)
AfterLines(text, pos, n) ==
    LET l == ReadLine(text, pos)
    IN  IF n = 0 \/ l.line = <<>> THEN pos
        ELSE AfterLines(text, l.pos, n - 1)

\* The position in the text after the n-th line that starts with ">" from
\* position pos, or the end of the text when it has fewer such lines.
RECURSIVE AfterHeaders(_, _, _)
AfterHeaders(text, pos, n) ==
    LET l == ReadLine(text, pos)
    IN  IF n = 0 \/ l.line = <<>> THEN pos
        ELSE AfterHeaders(text, l.pos, IF StartsWith(l.line, GT) THEN n - 1 ELSE n)

\* The file cut after its line 40, and after its 10th header line.
FastqPrefix(text) == SubSeq(text, 1, AfterLines(text, 0, 4 * FastqMaxRecords))
FastaPrefix(text) == SubSeq(text, 1, AfterHeaders(text, 0, FastaMaxRecords))

\* C16: the verdict of FastqIO.isValid on a file is its verdict on the first
\* 40 lines of the file, and the verdict of FastaIO.isValid is its verdict on
\* the lines up to the 10th header line, whatever follows them: two files
\* with the same such lines get the same verdict.
C16_PrefixDecides ==
    /\ (ret.op = "FastqIO.isValid" /\ fs.exists)
         => ret.out = [tag |-> "bool",
                       val |-> FastqIsValid(FastqPrefix(Decode(fs.content)))]
    /\ (ret.op = "FastaIO.isValid" /\ fs.exists)
         => ret.out = [tag |-> "bool",
                       val |-> FastaIsValid(FastaPrefix(Decode(fs.content)))]

(***************************************************************************)
(* The reverse complement (C17).                                           *)
(***************************************************************************)
TableOf(method) == IF method = "dnaRevCom" THEN dna_complement ELSE rna_complement

\* Record r is the reverse complement of record s under the table.
IsRevCom(table, s, r) ==
    LET n == Len(s.string)
    IN  /\ Len(r.string) = n
        /\ \A i \in 1..n : r.string[i] = table[s.string[n + 1 - i]]
        /\ IF s.quality.some
           THEN /\ r.quality.some
                /\ Len(r.quality.val) = Len(s.quality.val)
                /\ \A i \in 1..Len(s.quality.val) :
                      r.quality.val[i] = s.quality.val[Len(s.quality.val) + 1 - i]
           ELSE r.quality = None
        /\ r.id = s.id
        /\ r.description = s.description

\* The record the last call was made on.
LastInput == IF ret.out.tag = "record" THEN chain[Len(chain)].of ELSE Current

\* C17: dnaRevCom and rnaRevCom return a record whose residue at position i
\* is the complement, under the table of the method, of the residue of the
\* original at the mirror position, whose quality is the quality of the
\* original reversed, or None when it has none, and whose id and description
\* are those of the original ("ACGTN" gives "NACGT", and "NACGU" for RNA);
\* the original is as it was; the call raises KeyError exactly when a residue
\* is no key of the table.
C17_RevCom ==
    /\ \A k \in 1..Len(chain) : IsRevCom(TableOf(chain[k].by), chain[k].of, chain[k].val)
    /\ chain # <<>> => chain[1].of = rec
    /\ (chain # <<>> /\ rec.string = <<65, 67, 71, 84, 78>>)
         => chain[1].val.string = IF chain[1].by = "dnaRevCom"
                                  THEN <<78, 65, 67, 71, 84>>
                                  ELSE <<78, 65, 67, 71, 85>>
    /\ ret.op \in {"dnaRevCom", "rnaRevCom"}
         => (ret.out.tag = "KeyError"
               <=> \E i \in 1..Len(LastInput.string) :
                      LastInput.string[i] \notin DOMAIN TableOf(ret.op))

\* "ACGTN" with the quality "IJKLM" gave "NACGT" with "MLKJI".
C17_Witness ==
    /\ rec.string = <<65, 67, 71, 84, 78>>
    /\ rec.quality = Some(<<73, 74, 75, 76, 77>>)
    /\ Len(chain) = 1
    /\ chain[1].by = "dnaRevCom"
    /\ chain[1].val.string = <<78, 65, 67, 71, 84>>
    /\ chain[1].val.quality = Some(<<77, 76, 75, 74, 73>>)

(***************************************************************************)
(* SpecFastaRead: a file made of lines of FASTA files, in any order, read  *)
(* with a FastaIO.                                                         *)
(***************************************************************************)
MaxFastaReadLines == 5

\* ">a  d e " (two spaces after the id, one at the end), ">b" with a Windows
\* line break, ">" without id, "AC", " C A" with a Mac line break, and an
\* empty line.
FastaReadLines ==
    { <<GT, 97, SP, SP, 100, SP, 101, SP, NL>>,
      <<GT, 98, CR, NL>>,
      <<GT, SP, NL>>,
      <<65, 67, NL>>,
      <<SP, 67, SP, 65, CR>>,
      <<NL>> }

AppendFastaReadLine ==
    /\ Added("line") < MaxFastaReadLines
    /\ \E l \in FastaReadLines : AppendLines("line", l)

NextFastaRead ==
    \/ AppendFastaReadLine
    \/ Open("FastaIO", "r")
    \/ NextSeq

SpecFastaRead == InitFiles /\ [][NextFastaRead]_vars

(***************************************************************************)
(* The records of a FASTA file (C18).                                      *)
(***************************************************************************)
\* The fields of a header line: what follows ">", cut at the first run of
\* whitespace.
HeaderFields(line) == Split1(Tail1(Strip(line)))

\* The first line is a header and every header has an id.
FastaHeadersOk(lines, H) ==
    /\ Len(lines) >= 1
    /\ H[1]
    /\ \A i \in 1..Len(lines) : H[i] => HeaderFields(lines[i]) # <<>>

\* The line number of the k-th header.
NthHeader(H, k) == CHOOSE i \in 1..Len(H) : H[i] /\ HeadersUpTo(H, i) = k

\* The stripped lines from line i to the next header or the end, joined.
RECURSIVE BodyFrom(_, _, _)
BodyFrom(lines, H, i) ==
    IF i > Len(lines) \/ H[i] THEN <<>>
    ELSE Strip(lines[i]) \o BodyFrom(lines, H, i + 1)

\* The record of the k-th header of the file.
RecordOfHeader(lines, H, k) ==
    LET p == NthHeader(H, k)
        fields == HeaderFields(lines[p])
    IN  Sequence(fields[1], BodyFrom(lines, H, p + 1),
                 IF Len(fields) = 2 THEN Some(fields[2]) ELSE None,
                 None)

\* A nextSeq() of an open FastaIO reader that has read k - 1 records: it
\* returns the record of the k-th header and stands after the next header, or
\* at the end of the stream after the last record; at the end of the stream
\* it returns None.
ReadsRecordsInOrder(lines, H) ==
    LET n == HeadersUpTo(H, Len(H))
        k == IF current_line_nb = 1 THEN 1 ELSE HeadersUpTo(H, current_line_nb - 1)
    IN  IF end_of_file
        THEN ret'.out.tag = "None"
        ELSE /\ ret'.out = [tag |-> "record", val |-> RecordOfHeader(lines, H, k)]
             /\ IF k = n
                THEN end_of_file' /\ current_line_nb' = Len(lines) + 1
                ELSE ~end_of_file' /\ current_line_nb' - 1 = NthHeader(H, k + 1)

\* C18: on a FASTA file whose first line is a header and whose headers all
\* have an id, the successive nextSeq() of a reader return one record for
\* each header, in the order of the file, then None; the id of a record is
\* the first field of its header after ">", its description the rest of the
\* header, or None, and its residues the stripped lines up to the next
\* header or to the end of the stream, joined.
C18_FastaRecords ==
    [][(ret'.op = "nextSeq" /\ cls = "FastaIO" /\ mode = "r" /\ file_handle.open)
        => LET lines == FileLines
               H == HeaderFlags(lines)
           IN  FastaHeadersOk(lines, H) => ReadsRecordsInOrder(lines, H)]_vars

\* The reader has returned a later record of the file: "b", without
\* description, with the residues of two lines, "AC" and " C A".
C18_Witness ==
    /\ cls = "FastaIO"
    /\ ret.op = "nextSeq"
    /\ ret.out = [tag |-> "record",
                  val |-> Sequence(<<98>>, <<65, 67, 67, SP, 65>>, None, None)]
    /\ current_line_nb > 4
    /\ FastaHeadersOk(FileLines, HeaderFlags(FileLines))

(***************************************************************************)
(* SpecQual: a file made of whole FASTQ records with high quality codes,   *)
(* enough of them to count hundreds of codes, probed with                  *)
(* FastqIO.qualOffset.                                                     *)
(***************************************************************************)
MaxQualUnits == 19

\* n times the character c
Repeat(c, n) == [i \in 1..n |-> c]

\* A record with n bases "A" whose quality codes are all c.
QualRecord(id, n, c) ==
    <<AT, id, NL>> \o Repeat(65, n) \o <<NL, PLUS, NL>> \o Repeat(c, n) \o <<NL>>

\* The records of a file, in the order of their kinds: 24 bases of code 84
\* ("T"), one base of code 84, 24 bases of code 90 ("Z"), and "NA" with the
\* codes 90.
QualKinds == <<"24 T", "1 T", "24 Z", "N">>

QualUnit(kind) ==
    IF kind = "24 T" THEN QualRecord(97, 24, 84)
    ELSE IF kind = "1 T" THEN QualRecord(98, 1, 84)
    ELSE IF kind = "24 Z" THEN QualRecord(99, 24, 90)
    ELSE <<AT, 100, NL, chN, 65, NL, PLUS, NL, 90, 90, NL>>

RankOf(kind) == CHOOSE i \in 1..Len(QualKinds) : QualKinds[i] = kind

AppendQualUnit ==
    /\ Len(written) < MaxQualUnits
    /\ \E i \in 1..Len(QualKinds) :
          /\ written # <<>> => /\ RankOf(written[Len(written)]) <= i
                               /\ written[Len(written)] # "N"
          /\ AppendLines(QualKinds[i], QualUnit(QualKinds[i]))

NextQual == AppendQualUnit \/ QualOffsetCall

SpecQual == InitFiles /\ [][NextQual]_vars

(***************************************************************************)
(* The percentile of qualOffset (C19).                                     *)
(***************************************************************************)
\* The number of quality codes up to c among the codes of the bases other
\* than "N" of the records j to the last (a code and its base are those at
\* the same place of the quality and of the sequence).
RECURSIVE CodesUpTo(_, _, _)
CodesUpTo(R, j, c) ==
    IF j > Len(R) THEN 0
    ELSE Cardinality({i \in 1..Len(R[j].residues) :
                        /\ i <= Len(R[j].quality)
                        /\ R[j].residues[i] # chN
                        /\ R[j].quality[i] <= c})
         + CodesUpTo(R, j + 1, c)

\* No quality code of the file is below LowCode.
NoLowCode(R) ==
    \A j \in 1..Len(R) : \A i \in 1..Len(R[j].quality) : R[j].quality[i] >= LowCode

\* C19: when no quality code is below 59, qualOffset returns 64 exactly when
\* the floor(total * 0.30)-th smallest of the quality codes of the bases
\* other than "N", total being their number, is above 84 (fewer than that
\* many of these codes are 84 or less), and 33 otherwise.
C19_PercentileOffset ==
    (ret.op = "FastqIO.qualOffset" /\ fs.exists /\ ret.out.tag = "int")
    => LET R == FileRecords
           total == CodesUpTo(R, 1, 126)
           k == (total * 30) \div 100
       IN  NoLowCode(R)
           => ret.out.val = IF k >= 1 /\ CodesUpTo(R, 1, HighCode) < k THEN 64 ELSE 33

(***************************************************************************)
(* The detectors and the readers (C20).                                    *)
(***************************************************************************)
\* C20: on a file that is not empty, a nextSeq() of the open reader that
\* SequenceFileReader.factory returned raises no parse failure, and the
\* records of a FASTQ reader have as many quality codes as residues.
C20_DetectorReaderAgree ==
    (ret.op = "nextSeq" /\ file_handle.open /\ fs.content # <<>>)
    => /\ ret.out.tag # "IOError"
       /\ (cls = "FastqIO" /\ ret.out.tag = "record")
            => Len(ret.out.val.quality.val) = Len(ret.out.val.string)

====
